---- MODULE Spec2Model ----
(***************************************************************************)
(* MeshSurfaceSampler (the class embedded at the top of the particle       *)
(* script): constructor, setWeightAttribute, build, sample, binarySearch   *)
(* and sampleFace, together with the three.js vector/triangle helpers      *)
(* those methods call.                                                     *)
(*                                                                         *)
(* Spec is the life of one sampler over a caller's mesh: any order of      *)
(* constructor, setWeightAttribute, build and sample calls.  SpecSearch    *)
(* starts from built samplers and calls binarySearch directly, with every  *)
(* whole value from 0 up to and including the last entry, and with values  *)
(* outside that range.                                                     *)
(*                                                                         *)
(* The page scripts around the sampler are three further specifications    *)
(* over the same variables.  SpecParticles is the final revision: model    *)
(* load, the facing-direction sampling loop, createParticles and           *)
(* startAnimation.  SpecScript is script.js, which picks random vertices   *)
(* and reports load progress and errors on the loading screen.  SpecRev0   *)
(* is the first revision, where manager.onLoad starts the animation.       *)
(* Each callback is one action, except the sampling loops, which take one  *)
(* action per iteration.                                                   *)
(*                                                                         *)
(* Numbers.  All mesh coordinates, vertex weights and colours are small    *)
(* integers, so every float operation of the code is exact on them.        *)
(* NaN stands for the JavaScript values NaN/undefined in arithmetic.       *)
(* Math.random() is drawn from the grid {0, 1/RandDen, ..,                 *)
(* (RandDen-1)/RandDen}; the barycentric draws u, v are kept as their      *)
(* numerators, and every quantity that is multiplied by u or v (sample     *)
(* positions, colours) is kept multiplied by RandDen.                      *)
(* Math.random() * cumulativeTotal is drawn as an integer r: the           *)
(* distribution holds integers only, so every comparison binarySearch      *)
(* makes has the same outcome for all reals in [r, r+1), and r stands for  *)
(* that unit interval.                                                     *)
(***************************************************************************)
EXTENDS Integers, Sequences, FiniteSets, TLC

\* Largest number of whole triangles of a mesh.
MaxTris == 3
\* Resolution of the grid Math.random() is drawn from.
RandDen == 3

\* Largest number of triangles, and largest triangle area, of the meshes whose
\* distributions binarySearch is applied to under SpecSearch.
MaxFaces == 4
MaxArea == 4

\* JavaScript NaN (also what `undefined` becomes in arithmetic).
NaN == -1000000

VARIABLES
  mesh,               \* the caller's mesh (mesh.geometry)
  pc,                 \* "new" before the constructor ran; "ready" between
                      \* calls; "sampled" when sample() has returned and
                      \* the caller has not read the targets yet; "searched"
                      \* likewise for binarySearch(); "threw"
  thrown,             \* the error that ended the program, "none" otherwise
  geometry,           \* this.geometry
  positionAttribute,  \* this.positionAttribute
  colorAttribute,     \* this.colorAttribute
  weightAttribute,    \* this.weightAttribute
  distribution,       \* this.distribution
  face,               \* the module-level scratch triangle _face: <<a, b, c>>
  call,               \* the call whose result the caller has not consumed
                      \* yet: for sample() the random draws it made and the
                      \* target objects it was given, as they are on return;
                      \* for binarySearch() its argument and its result
  \* the page scripts (the visual layer)
  step,               \* where the page is: "loading" until the model callback
                      \* or its error callback runs, "sampling" inside the
                      \* sampling loop of the model callback, "returned" after
                      \* the callback, "failed" after the error callback;
                      \* "none" when no page script runs
  pending,            \* the items the loading manager still waits for
  targetPositions,    \* the global targetPositions
  attempts,           \* the counter of the sampling loop (attempts of the
                      \* surface sampling, i of the vertex sampling), a local
                      \* of the model callback (0 when it is not running)
  normal,             \* _normal, as the last sample() left it, a local of the
                      \* model callback (the zero vector when it is not running)
  particleSystem,     \* the global particleSystem, with the array of
                      \* particleGeometry.attributes.position
  timeline,           \* the gsap tweens startAnimation created
  ticker,             \* the callbacks added to gsap.ticker
  loadingScreen,      \* the loading-screen element
  console,            \* the warnings and errors logged (and the final log
                      \* line of startAnimation)
  composer            \* whether setupPostProcessing has created the composer

page == <<step, pending, targetPositions, attempts, normal, particleSystem,
          timeline, ticker, loadingScreen, console, composer>>

vars == <<mesh, pc, thrown, geometry, positionAttribute, colorAttribute,
          weightAttribute, distribution, face, call, page>>

sampler == <<geometry, positionAttribute, colorAttribute, weightAttribute,
             distribution>>

----------------------------------------------------------------------------
\* JavaScript numbers

IsNaN(x) == x = NaN
Plus(a, b) == IF IsNaN(a) \/ IsNaN(b) THEN NaN ELSE a + b
Minus(a, b) == IF IsNaN(a) \/ IsNaN(b) THEN NaN ELSE a - b
Times(a, b) == IF IsNaN(a) \/ IsNaN(b) THEN NaN ELSE a * b
\* a >= b and a > b: false as soon as one side is NaN
GE(a, b) == ~IsNaN(a) /\ ~IsNaN(b) /\ a >= b
GT(a, b) == ~IsNaN(a) /\ ~IsNaN(b) /\ a > b
\* Math.sqrt on the perfect squares the meshes of this model produce
Sqrt(n) == IF IsNaN(n) THEN NaN ELSE CHOOSE k \in 0..n : k * k = n
\* x * 0.5 on the even numbers the meshes of this model produce
Half(n) == IF IsNaN(n) THEN NaN ELSE n \div 2

----------------------------------------------------------------------------
\* THREE.Vector3 and THREE.Triangle, as the sampler uses them

NaNVec == <<NaN, NaN, NaN>>
ZeroVec == <<0, 0, 0>>

subVectors(a, b) == <<Minus(a[1], b[1]), Minus(a[2], b[2]), Minus(a[3], b[3])>>

cross(a, b) ==
  <<Minus(Times(a[2], b[3]), Times(a[3], b[2])),
    Minus(Times(a[3], b[1]), Times(a[1], b[3])),
    Minus(Times(a[1], b[2]), Times(a[2], b[1]))>>

lengthSq(v) == Plus(Plus(Times(v[1], v[1]), Times(v[2], v[2])), Times(v[3], v[3]))

length(v) == Sqrt(lengthSq(v))

\* v + s * k, componentwise
addScaledVector(v, s, k) ==
  <<Plus(v[1], Times(s[1], k)), Plus(v[2], Times(s[2], k)), Plus(v[3], Times(s[3], k))>>

\* Triangle.getArea: |(c - b) x (a - b)| * 0.5
getArea(t) == Half(length(cross(subVectors(t[3], t[2]), subVectors(t[1], t[2]))))

\* Triangle.getNormal: (c - b) x (a - b), normalized; the zero vector when its
\* squared length is not > 0 (a degenerate triangle, or NaN vertices)
getNormal(t) ==
  LET n == cross(subVectors(t[3], t[2]), subVectors(t[1], t[2]))
      l2 == lengthSq(n)
  IN IF GT(l2, 0)
       THEN <<n[1] \div Sqrt(l2), n[2] \div Sqrt(l2), n[3] \div Sqrt(l2)>>
       ELSE ZeroVec

----------------------------------------------------------------------------
\* Buffer attributes and geometries

Attribute(size, arr) == [kind |-> "attribute", itemSize |-> size, array |-> arr]
\* geometry.getAttribute(name) of an attribute the geometry does not have
UndefinedAttribute == [kind |-> "undefined"]
NullAttribute == [kind |-> "null"]
Unset == [kind |-> "unset"]

\* attribute.count
count(attr) == Len(attr.array)

\* vector.fromBufferAttribute(attr, index): reading past the end of the typed
\* array yields undefined components
fromBufferAttribute(attr, index) ==
  IF index < count(attr) THEN attr.array[index + 1] ELSE NaNVec

\* attr.getX(index) of a one-component attribute
getX(attr, index) ==
  IF index < count(attr) THEN attr.array[index + 1] ELSE NaN

getAttribute(g, name) == g.attributes[name]

\* the three vertices of face i, as build() and sampleFace() load them into _face
loadFace(attr, i) ==
  <<fromBufferAttribute(attr, i * 3 + 0),
    fromBufferAttribute(attr, i * 3 + 1),
    fromBufferAttribute(attr, i * 3 + 2)>>

RECURSIVE expand(_, _, _)
expand(arr, idx, k) ==
  IF k > Len(idx) THEN <<>>
  ELSE <<arr[idx[k] + 1]>> \o expand(arr, idx, k + 1)

convertAttribute(attr, idx) ==
  IF attr.kind = "attribute"
    THEN Attribute(attr.itemSize, expand(attr.array, idx, 1))
    ELSE attr

\* BufferGeometry.toNonIndexed(): a new geometry without index, every attribute
\* expanded to one item per index entry
toNonIndexed(g) ==
  [isBufferGeometry |-> TRUE,
   index |-> NullAttribute,
   attributes |-> [n \in DOMAIN g.attributes |->
                      convertAttribute(g.attributes[n], g.index.array)]]

----------------------------------------------------------------------------
\* The meshes a caller may hand to the sampler

\* One triangle of a triangle list: its vertices a, b, c, the scalar weight
\* and the colour of each vertex.
\*   area 1, facing +z, weights summing to 1
TriFront == [v |-> <<<<0, 0, 0>>, <<1, 0, 0>>, <<0, 2, 0>>>>,
             w |-> <<1, 0, 0>>,
             c |-> <<<<1, 0, 0>>, <<0, 1, 0>>, <<0, 0, 1>>>>]
\*   area 1, facing -z, weights summing to 3
TriBack == [v |-> <<<<0, 0, 0>>, <<0, 2, 0>>, <<1, 0, 0>>>>,
            w |-> <<1, 1, 1>>,
            c |-> <<<<2, 0, 0>>, <<0, 2, 0>>, <<0, 0, 2>>>>]
\*   area 2, facing +z, weights summing to 0
TriBig == [v |-> <<<<0, 0, 0>>, <<2, 0, 0>>, <<0, 2, 0>>>>,
           w |-> <<0, 0, 0>>,
           c |-> <<<<1, 1, 0>>, <<0, 1, 1>>, <<1, 0, 1>>>>]
\*   area 0 (collinear vertices), weights summing to 2
TriFlat == [v |-> <<<<0, 0, 0>>, <<1, 0, 0>>, <<2, 0, 0>>>>,
            w |-> <<1, 0, 1>>,
            c |-> <<<<1, 0, 0>>, <<0, 1, 0>>, <<0, 0, 1>>>>]
\*   area 1, facing +z, weights summing to -1
TriNeg == [v |-> <<<<1, 0, 0>>, <<2, 0, 0>>, <<1, 2, 0>>>>,
           w |-> <<0, -1, 0>>,
           c |-> <<<<0, 0, 1>>, <<0, 1, 0>>, <<1, 0, 0>>>>]

\* The triangles meshes are made of: every sequence over Catalog, and every
\* sequence over each of the pairs below.
Catalog == {TriFront, TriBack, TriFlat}
BigCatalog == {TriFront, TriBig}
NegCatalog == {TriFront, TriNeg}
SmallCatalog == {TriFront, TriFlat}

SeqsUpTo(S, n) == UNION {[1..k -> S] : k \in 0..n}

RECURSIVE flatten(_, _, _)
flatten(tris, field, k) ==
  IF k > Len(tris) THEN <<>>
  ELSE tris[k][field] \o flatten(tris, field, k + 1)

\* A flat triangle-list mesh: the triangles `tris`, followed by `extra` (0..2)
\* vertices that do not make up a triangle; with or without the weight and
\* colour channels.
FlatMesh(tris, extra, channels) ==
  [geometry |->
    [isBufferGeometry |-> TRUE,
     index |-> NullAttribute,
     attributes |->
       [position |-> Attribute(3, flatten(tris, "v", 1) \o SubSeq(TriFront.v, 1, extra)),
        weight |-> IF channels
                     THEN Attribute(1, flatten(tris, "w", 1) \o SubSeq(TriFront.w, 1, extra))
                     ELSE UndefinedAttribute,
        color |-> IF channels
                    THEN Attribute(3, flatten(tris, "c", 1) \o SubSeq(TriFront.c, 1, extra))
                    ELSE UndefinedAttribute]]]

\* An indexed mesh over four shared vertices
IndexedMesh(idx) ==
  [geometry |->
    [isBufferGeometry |-> TRUE,
     index |-> Attribute(1, idx),
     attributes |->
       [position |-> Attribute(3, <<<<0, 0, 0>>, <<1, 0, 0>>, <<0, 2, 0>>, <<1, 2, 0>>>>),
        weight |-> Attribute(1, <<1, 0, 2, 1>>),
        color |-> Attribute(3, <<<<1, 0, 0>>, <<0, 1, 0>>, <<0, 0, 1>>, <<1, 1, 1>>>>)]]]

\* What the constructor refuses: a legacy (non-buffer) geometry, and positions
\* of two components
LegacyMesh ==
  [geometry |-> [isBufferGeometry |-> FALSE, index |-> NullAttribute,
                 attributes |-> [position |-> UndefinedAttribute,
                                 weight |-> UndefinedAttribute,
                                 color |-> UndefinedAttribute]]]
PlanarMesh ==
  [geometry |-> [isBufferGeometry |-> TRUE, index |-> NullAttribute,
                 attributes |-> [position |-> Attribute(2, <<<<0, 0>>, <<1, 0>>, <<0, 2>>>>),
                                 weight |-> UndefinedAttribute,
                                 color |-> UndefinedAttribute]]]

Meshes ==
  {FlatMesh(t, 0, TRUE) : t \in SeqsUpTo(Catalog, MaxTris) \cup SeqsUpTo(BigCatalog, MaxTris)
                               \cup SeqsUpTo(NegCatalog, MaxTris)}
  \cup {FlatMesh(t, 0, FALSE) : t \in SeqsUpTo(SmallCatalog, MaxTris)}
  \cup {FlatMesh(t, e, TRUE) : t \in SeqsUpTo(SmallCatalog, MaxTris - 1), e \in {1, 2}}
  \cup {IndexedMesh(i) : i \in {<<0, 1, 2>>, <<0, 2, 1>>, <<0, 1, 2, 2, 1, 3>>,
                               <<0, 1, 2, 1>>, <<1, 1, 1, 0, 1, 2>>}}
  \cup {LegacyMesh, PlanarMesh}

----------------------------------------------------------------------------
\* MeshSurfaceSampler

\* A target object the caller passes to sample(), before the call; also what
\* stands in `call` for a target that was not passed. No vertex, normal or
\* colour of this model has a negative component below -1, so a target that
\* still holds FreshVec was not written.
FreshVec == <<-7, -7, -7>>

NullDistribution == [kind |-> "null"]
Float32Array(arr) == [kind |-> "Float32Array", array |-> arr]

\* new Float32Array( n ) for n = c / 3: the length is n truncated to an integer
zeros(c) == [k \in 1..(c \div 3) |-> 0]

\* array[ i ] = x on a typed array: a write past the end is ignored
setAt(arr, i, x) == IF i < Len(arr) THEN [arr EXCEPT ![i + 1] = x] ELSE arr

\* a constructor that stores the converted geometry back into the mesh
meshConvertedInPlace(m) ==
  IF m.geometry.isBufferGeometry /\ m.geometry.index.kind = "attribute"
    THEN [m EXCEPT !.geometry = toNonIndexed(m.geometry)]
    ELSE m

\* the caller's mesh after new MeshSurfaceSampler( mesh ): the constructor
\* reads mesh.geometry into a local and assigns the converted geometry to that
\* local and to this.geometry only
meshAfterConstructor(m) == m

\* a constructor that refuses an indexed geometry instead of converting it
constructFlatOnly(m) ==
  LET g == m.geometry IN
  IF ~g.isBufferGeometry \/ g.attributes.position.itemSize # 3
       \/ g.index.kind = "attribute"
    THEN [thrown |-> "Error: Requires BufferGeometry triangle mesh"]
    ELSE [thrown |-> "none",
          geometry |-> g,
          positionAttribute |-> getAttribute(g, "position"),
          colorAttribute |-> getAttribute(g, "color"),
          weightAttribute |-> NullAttribute,
          distribution |-> NullDistribution]

\* constructor( mesh ): the fields it leaves, or the error it throws
construct(m) ==
  LET g0 == m.geometry IN
  IF ~g0.isBufferGeometry \/ g0.attributes.position.itemSize # 3
    THEN [thrown |-> "Error: Requires BufferGeometry triangle mesh"]
    ELSE LET g == IF g0.index.kind = "attribute" THEN toNonIndexed(g0) ELSE g0
         IN [thrown |-> "none",
             geometry |-> g,
             positionAttribute |-> getAttribute(g, "position"),
             colorAttribute |-> getAttribute(g, "color"),
             weightAttribute |-> NullAttribute,
             distribution |-> NullDistribution]

\* setWeightAttribute( name ): name ? this.geometry.getAttribute( name ) : null
weightAttributeFor(g, name) ==
  IF name # "" THEN getAttribute(g, name) ELSE NullAttribute

\* faceWeight with the average of the three vertex weights in place of their sum
faceWeightAveraged(posAttr, wAttr, i) ==
  LET w == IF wAttr.kind = "attribute"
             THEN Plus(Plus(getX(wAttr, i * 3 + 0), getX(wAttr, i * 3 + 1)),
                       getX(wAttr, i * 3 + 2)) \div 3
             ELSE 1
  IN Times(w, getArea(loadFace(posAttr, i)))

\* the weight of face i in build(): 1, or the sum of its three vertex weights
\* when weightAttribute is truthy, times the area of the face
faceWeight(posAttr, wAttr, i) ==
  LET w == IF wAttr.kind = "attribute"
             THEN Plus(Plus(getX(wAttr, i * 3 + 0), getX(wAttr, i * 3 + 1)),
                       getX(wAttr, i * 3 + 2))
             ELSE 1
  IN Times(w, getArea(loadFace(posAttr, i)))

\* first loop of build(): for ( i = 0; i < positionAttribute.count / 3; i ++ )
RECURSIVE faceWeightsLoop(_, _, _, _)
faceWeightsLoop(posAttr, wAttr, i, acc) ==
  IF i * 3 < count(posAttr)
    THEN faceWeightsLoop(posAttr, wAttr, i + 1,
           [faceWeights |-> setAt(acc.faceWeights, i, faceWeight(posAttr, wAttr, i)),
            face |-> loadFace(posAttr, i)])
    ELSE acc

\* the second loop storing each face weight instead of the running sum
RECURSIVE cumulativeLoopPlain(_, _, _, _)
cumulativeLoopPlain(faceWeights, i, cumulativeWeight, dist) ==
  IF i < Len(faceWeights)
    THEN cumulativeLoopPlain(faceWeights, i + 1, cumulativeWeight,
                             setAt(dist, i, faceWeights[i + 1]))
    ELSE dist

\* second loop of build(): the running sum of faceWeights
RECURSIVE cumulativeLoop(_, _, _, _)
cumulativeLoop(faceWeights, i, cumulativeWeight, dist) ==
  IF i < Len(faceWeights)
    THEN cumulativeLoop(faceWeights, i + 1, Plus(cumulativeWeight, faceWeights[i + 1]),
                        setAt(dist, i, Plus(cumulativeWeight, faceWeights[i + 1])))
    ELSE dist

\* build(): the distribution it stores and the scratch triangle it leaves
buildResult(posAttr, wAttr, face0) ==
  LET l1 == faceWeightsLoop(posAttr, wAttr, 0,
              [faceWeights |-> zeros(count(posAttr)), face |-> face0])
  IN [distribution |-> Float32Array(cumulativeLoop(l1.faceWeights, 0, 0,
                                                   zeros(count(posAttr)))),
      face |-> l1.face]

\* binarySearch( value ): the while loop
RECURSIVE searchLoop(_, _, _, _)
searchLoop(dist, value, low, high) ==
  IF low < high
    THEN LET mid == (low + high) \div 2
         IN IF GE(value, dist[mid + 1])
              THEN searchLoop(dist, value, mid + 1, high)
              ELSE searchLoop(dist, value, low, mid)
    ELSE low

\* binarySearch with the comparison turned into value > distribution[ mid ]
RECURSIVE searchLoopStrict(_, _, _, _)
searchLoopStrict(dist, value, low, high) ==
  IF low < high
    THEN LET mid == (low + high) \div 2
         IN IF GT(value, dist[mid + 1])
              THEN searchLoopStrict(dist, value, mid + 1, high)
              ELSE searchLoopStrict(dist, value, low, mid)
    ELSE low

binarySearchStrict(dist, value) == searchLoopStrict(dist, value, 0, Len(dist) - 1)

\* binarySearch starting from high = this.distribution.length
binarySearchHighLength(dist, value) == searchLoop(dist, value, 0, Len(dist))

binarySearch(dist, value) == searchLoop(dist, value, 0, Len(dist) - 1)

\* this.distribution[ this.distribution.length - 1 ]
cumulativeTotal(dist) == IF Len(dist) > 0 THEN dist[Len(dist)] ELSE NaN

\* Math.random() * cumulativeTotal, as the integer r that stands for [r, r+1)
RandomTimes(total) ==
  IF IsNaN(total) THEN {NaN}
  ELSE IF total > 0 THEN 0..(total - 1)
  ELSE total..0

\* the draws without the reflection
foldNone(u, v) == <<u, v>>

\* u and v as sampleFace() uses them: if ( u + v > 1 ) { u = 1 - u; v = 1 - v; }
fold(u, v) == IF u + v > RandDen THEN <<RandDen - u, RandDen - v>> ELSE <<u, v>>

\* set( 0, 0, 0 ).addScaledVector( a, u ).addScaledVector( b, v )
\*               .addScaledVector( c, 1 - ( u + v ) )
interpolate(t, u, v) ==
  addScaledVector(addScaledVector(addScaledVector(ZeroVec, t[1], u), t[2], v),
                  t[3], RandDen - (u + v))

\* a sampleFace that interpolates the colour with the draws as they were
\* before the reflection
sampleFaceColorUnfolded(posAttr, colAttr, faceIndex, u0, v0, nargs) ==
  LET u == fold(u0, v0)[1]
      v == fold(u0, v0)[2]
      t == loadFace(posAttr, faceIndex)
  IN [face |-> t,
      targetPosition |-> interpolate(t, u, v),
      targetNormal |-> IF nargs >= 2 THEN getNormal(t) ELSE FreshVec,
      targetColor |-> IF nargs >= 3 /\ colAttr.kind # "undefined"
                        THEN interpolate(loadFace(colAttr, faceIndex), u0, v0)
                        ELSE FreshVec]

\* sampleFace( faceIndex, targetPosition, targetNormal, targetColor ) with the
\* draws u0, v0 of Math.random(); nargs is the number of targets passed
sampleFace(posAttr, colAttr, faceIndex, u0, v0, nargs) ==
  LET u == fold(u0, v0)[1]
      v == fold(u0, v0)[2]
      t == loadFace(posAttr, faceIndex)
  IN [face |-> t,
      targetPosition |-> interpolate(t, u, v),
      targetNormal |-> IF nargs >= 2 THEN getNormal(t) ELSE FreshVec,
      targetColor |-> IF nargs >= 3 /\ colAttr.kind # "undefined"
                        THEN interpolate(loadFace(colAttr, faceIndex), u, v)
                        ELSE FreshVec]

----------------------------------------------------------------------------
\* The state machine

NoCall == [op |-> "none"]

\* The page before any script has run: `let particleSystem`, `let composer`
\* undefined, targetPositions = [], the loading screen as the document has it.
NoParticleSystem == [kind |-> "undefined"]
NoTimeline == [camera |-> FALSE, tweens |-> <<>>, rotation |-> FALSE]
LoadingScreen(text) == [innerText |-> text, fading |-> FALSE, display |-> "block"]

PageStart(at, items) ==
  /\ step = at
  /\ pending = items
  /\ targetPositions = <<>>
  /\ attempts = 0
  /\ normal = ZeroVec
  /\ particleSystem = NoParticleSystem
  /\ timeline = NoTimeline
  /\ ticker = {}
  /\ loadingScreen = LoadingScreen("Loading...")
  /\ console = {}
  /\ composer = FALSE

Init ==
  /\ mesh \in Meshes
  /\ pc = "new"
  /\ thrown = "none"
  /\ geometry = Unset
  /\ positionAttribute = Unset
  /\ colorAttribute = Unset
  /\ weightAttribute = Unset
  /\ distribution = Unset
  /\ face = <<ZeroVec, ZeroVec, ZeroVec>>
  /\ call = NoCall
  /\ PageStart("none", {})

\* new MeshSurfaceSampler( mesh )
constructor ==
  /\ pc = "new"
  /\ LET r == construct(mesh) IN
     IF r.thrown # "none"
       THEN /\ pc' = "threw"
            /\ thrown' = r.thrown
            /\ UNCHANGED sampler
       ELSE /\ pc' = "ready"
            /\ thrown' = "none"
            /\ geometry' = r.geometry
            /\ positionAttribute' = r.positionAttribute
            /\ colorAttribute' = r.colorAttribute
            /\ weightAttribute' = r.weightAttribute
            /\ distribution' = r.distribution
  /\ mesh' = meshAfterConstructor(mesh)
  /\ UNCHANGED <<face, call, page>>

\* sampler.setWeightAttribute( name ), name "" standing for a falsy name
setWeightAttribute ==
  /\ pc = "ready"
  /\ \E name \in {"", "weight"} :
       weightAttribute' = weightAttributeFor(geometry, name)
  /\ UNCHANGED <<mesh, pc, thrown, geometry, positionAttribute, colorAttribute,
                 distribution, face, call, page>>

\* sampler.build()
build ==
  /\ pc = "ready"
  /\ LET r == buildResult(positionAttribute, weightAttribute, face) IN
       /\ distribution' = r.distribution
       /\ face' = r.face
  /\ UNCHANGED <<mesh, pc, thrown, geometry, positionAttribute, colorAttribute,
                 weightAttribute, call, page>>

\* a sample() that takes a null distribution for an empty one and goes on
sampleUnbuiltLenient ==
  /\ pc = "ready"
  /\ distribution.kind = "null"
  /\ \E nargs \in 1..3, u0 \in 0..(RandDen - 1), v0 \in 0..(RandDen - 1) :
       LET s == sampleFace(positionAttribute, colorAttribute, 0, u0, v0, nargs)
       IN /\ face' = s.face
          /\ call' = [op |-> "sample", nargs |-> nargs, r |-> NaN, u |-> u0, v |-> v0,
                      faceIndex |-> 0,
                      targetPosition |-> s.targetPosition,
                      targetNormal |-> s.targetNormal,
                      targetColor |-> s.targetColor]
  /\ pc' = "sampled"
  /\ UNCHANGED <<mesh, thrown, sampler, page>>

\* sampler.sample( targetPosition, targetNormal, targetColor ) on a sampler
\* whose distribution is still null: reading this.distribution.length throws
sampleUnbuilt ==
  /\ pc = "ready"
  /\ distribution.kind = "null"
  /\ \E nargs \in 1..3 :
       call' = [op |-> "sample", nargs |-> nargs,
                targetPosition |-> FreshVec, targetNormal |-> FreshVec,
                targetColor |-> FreshVec]
  /\ pc' = "threw"
  /\ thrown' = "TypeError: Cannot read properties of null"
  /\ UNCHANGED <<mesh, sampler, face, page>>

\* a sample() that takes the weight it drew out of the distribution
sampleBuiltDraining ==
  /\ pc = "ready"
  /\ distribution.kind = "Float32Array"
  /\ \E nargs \in 1..3, u0 \in 0..(RandDen - 1), v0 \in 0..(RandDen - 1),
        r \in RandomTimes(cumulativeTotal(distribution.array)) :
       LET faceIndex == binarySearch(distribution.array, r)
           s == sampleFace(positionAttribute, colorAttribute, faceIndex, u0, v0, nargs)
       IN /\ face' = s.face
          /\ call' = [op |-> "sample", nargs |-> nargs, r |-> r, u |-> u0, v |-> v0,
                      faceIndex |-> faceIndex,
                      targetPosition |-> s.targetPosition,
                      targetNormal |-> s.targetNormal,
                      targetColor |-> s.targetColor]
          /\ distribution' = Float32Array(setAt(distribution.array, faceIndex, r))
  /\ pc' = "sampled"
  /\ UNCHANGED <<mesh, thrown, geometry, positionAttribute, colorAttribute,
                 weightAttribute, page>>

\* sampler.sample( targetPosition, targetNormal, targetColor ) after build()
sampleBuilt ==
  /\ pc = "ready"
  /\ distribution.kind = "Float32Array"
  /\ \E nargs \in 1..3, u0 \in 0..(RandDen - 1), v0 \in 0..(RandDen - 1),
        r \in RandomTimes(cumulativeTotal(distribution.array)) :
       LET faceIndex == binarySearch(distribution.array, r)
           s == sampleFace(positionAttribute, colorAttribute, faceIndex, u0, v0, nargs)
       IN /\ face' = s.face
          /\ call' = [op |-> "sample", nargs |-> nargs, r |-> r, u |-> u0, v |-> v0,
                      faceIndex |-> faceIndex,
                      targetPosition |-> s.targetPosition,
                      targetNormal |-> s.targetNormal,
                      targetColor |-> s.targetColor]
  /\ pc' = "sampled"
  /\ UNCHANGED <<mesh, thrown, sampler, page>>

sample == sampleUnbuilt \/ sampleBuilt

\* the caller reads the targets of the sample() that returned (or the index
\* binarySearch() returned) and goes on
takeSample ==
  /\ pc \in {"sampled", "searched"}
  /\ pc' = "ready"
  /\ call' = NoCall
  /\ UNCHANGED <<mesh, thrown, sampler, face, page>>

Next == constructor \/ setWeightAttribute \/ build \/ sample \/ takeSample

Spec == Init /\ [][Next]_vars

----------------------------------------------------------------------------
\* binarySearch on its own: samplers built over meshes of triangles of every
\* area 0..MaxArea, and sampler.binarySearch( value ) called on them with
\* every whole value from 0 to the last entry.

\* a triangle of area w in the plane z = 0
AreaTriangle(w) ==
  [v |-> <<<<0, 0, 0>>, <<w, 0, 0>>, <<0, 2, 0>>>>,
   w |-> <<1, 1, 1>>,
   c |-> <<<<1, 0, 0>>, <<0, 1, 0>>, <<0, 0, 1>>>>]

SearchMeshes ==
  {FlatMesh(t, 0, FALSE) :
     t \in SeqsUpTo({AreaTriangle(w) : w \in 0..MaxArea}, MaxFaces) \ {<<>>}}

\* the state after  sampler = new MeshSurfaceSampler( mesh ).build()
InitSearch ==
  /\ mesh \in SearchMeshes
  /\ pc = "ready"
  /\ thrown = "none"
  /\ LET r == construct(mesh)
         b == buildResult(r.positionAttribute, r.weightAttribute,
                          <<ZeroVec, ZeroVec, ZeroVec>>)
     IN /\ geometry = r.geometry
        /\ positionAttribute = r.positionAttribute
        /\ colorAttribute = r.colorAttribute
        /\ weightAttribute = r.weightAttribute
        /\ distribution = b.distribution
        /\ face = b.face
  /\ call = NoCall
  /\ PageStart("none", {})

\* sampler.binarySearch( value )
binarySearchCall ==
  /\ pc = "ready"
  /\ distribution.kind = "Float32Array"
  /\ \E value \in 0..cumulativeTotal(distribution.array) :
       call' = [op |-> "binarySearch", value |-> value,
                result |-> binarySearch(distribution.array, value)]
  /\ pc' = "searched"
  /\ UNCHANGED <<mesh, thrown, sampler, face, page>>

\* sampler.binarySearch( value ) with a value outside the range of the
\* distribution: below zero, above the last entry, or NaN
binarySearchOutside ==
  /\ pc = "ready"
  /\ distribution.kind = "Float32Array"
  /\ \E value \in {-1, cumulativeTotal(distribution.array) + 1, NaN} :
       call' = [op |-> "binarySearch", value |-> value,
                result |-> binarySearch(distribution.array, value)]
  /\ pc' = "searched"
  /\ UNCHANGED <<mesh, thrown, sampler, face, page>>

NextSearch == binarySearchCall \/ binarySearchOutside \/ takeSample

SpecSearch == InitSearch /\ [][NextSearch]_vars

----------------------------------------------------------------------------
\* The visual layer (the page script around the sampler): the GLTF load
\* callback with its accept/reject sampling loop, createParticles and
\* startAnimation.
\*
\* The numbers pushed to targetPositions are kept, like the sample position,
\* multiplied by RandDen and to the resolution of that grid: the offsets oX,
\* oY, oZ are below 1/100 and move no number to another grid point.

\* const particleCount: the number of particles asked for
particleCount == 2

\* const maxAttempts = particleCount * 5
maxAttempts == particleCount * 5

\* the least and the largest k-th coordinate of a non-empty list of vertices
boundMin(arr, k) ==
  CHOOSE x \in {arr[i][k] : i \in 1..Len(arr)} :
    \A i \in 1..Len(arr) : x <= arr[i][k]
boundMax(arr, k) ==
  CHOOSE x \in {arr[i][k] : i \in 1..Len(arr)} :
    \A i \in 1..Len(arr) : x >= arr[i][k]

\* geometry.computeBoundingBox(); geometry.center(); geometry.scale( 2, 2, 2 )
\* on the position array: p becomes 2 * ( p - ( min + max ) / 2 ); an empty
\* array has an empty bounding box, whose centre is the origin
centerScale(arr) ==
  [i \in 1..Len(arr) |->
     <<2 * arr[i][1] - (boundMin(arr, 1) + boundMax(arr, 1)),
       2 * arr[i][2] - (boundMin(arr, 2) + boundMax(arr, 2)),
       2 * arr[i][3] - (boundMin(arr, 3) + boundMax(arr, 3))>>]

\* what the load callback does to faceMesh before sampling: the geometry is
\* replaced by its non-indexed copy if it has an index, then centred and scaled
prepareGeometry(m) ==
  LET g0 == m.geometry
      g1 == IF g0.index.kind = "attribute" THEN toNonIndexed(g0) ELSE g0
  IN [m EXCEPT !.geometry =
        [g1 EXCEPT !.attributes.position =
           Attribute(3, centerScale(g1.attributes.position.array))]]

\* the meshes the model file may hold: front-facing, back-facing, a
\* degenerate triangle, no triangle at all, and an indexed one of a
\* front-facing and a back-facing triangle
VisualMeshes ==
  {FlatMesh(t, 0, FALSE) : t \in {<<TriFront>>, <<TriBack>>, <<TriFlat>>, <<>>}}
  \cup {IndexedMesh(<<0, 1, 2, 0, 2, 1>>)}

\* a loop condition without the bound on the attempts
loopContinuesUnbounded(tp, att) == Len(tp) < 3 * particleCount

\* while ( targetPositions.length / 3 < particleCount && attempts < maxAttempts )
loopContinues(tp, att) == Len(tp) < 3 * particleCount /\ att < maxAttempts

\* _normal.z > frontNormalThreshold, the threshold being 0.1
passesFilter(n) == GT(Times(10, n[3]), 1)

\* where every particle starts, for the draws 0 of Math.random(): radius 8,
\* phi = acos( -1 ), theta = 0, that is ( 0, 0, 8 * cos( phi ) - 2 )
startPosition == <<0, 0, -10>>

ParticleSystem(arr) == [kind |-> "Points", positions |-> arr]

\* a createParticles that sizes the buffer by particleCount
createParticlesFixedCount(ps, tp, con) ==
  IF Len(tp) = 0
    THEN [particleSystem |-> ps,
          console |-> con \cup {"Cannot create particles: targetPositions empty."}]
    ELSE [particleSystem |->
            ParticleSystem([i \in 1..(3 * particleCount) |-> startPosition[((i - 1) % 3) + 1]]),
          console |-> con]

\* createParticles( texture ): the particle system it leaves and the console;
\* the buffer is new Float32Array( actualParticleCount * 3 ) with
\* actualParticleCount = targetPositions.length / 3
createParticles(ps, tp, con) ==
  IF Len(tp) = 0
    THEN [particleSystem |-> ps,
          console |-> con \cup {"Cannot create particles: targetPositions empty."}]
    ELSE [particleSystem |->
            ParticleSystem([i \in 1..Len(tp) |-> startPosition[((i - 1) % 3) + 1]]),
          console |-> con]

\* targetPositions[ i ]: undefined past the end
targetAt(tp, i) == IF i < Len(tp) THEN tp[i + 1] ELSE NaN

\* the tween  tl.to( positions, { [i3]: .., [i3 + 1]: .., [i3 + 2]: .. } )
Tween(tp, i3) ==
  [i3 |-> i3, to |-> <<targetAt(tp, i3), targetAt(tp, i3 + 1), targetAt(tp, i3 + 2)>>]

\* a startAnimation that creates a tween for each of the particleCount
\* particles asked for
startAnimationFullCount(ps, tp, tl, tk, con) ==
  IF ps.kind = "undefined" \/ Len(tp) = 0
    THEN [timeline |-> tl, ticker |-> tk,
          console |-> con \cup {"Cannot start animation: System/targets not ready."}]
  ELSE IF Len(ps.positions) # Len(tp)
    THEN [timeline |-> tl, ticker |-> tk,
          console |-> con \cup {"CRITICAL ERROR: Position buffer size != target size."}]
  ELSE [timeline |-> [camera |-> TRUE,
                      tweens |-> [i \in 1..particleCount |-> Tween(tp, 3 * (i - 1))],
                      rotation |-> tl.rotation],
        ticker |-> tk \cup {"updateParticles"},
        console |-> con \cup {"GSAP animation started"}]

\* startAnimation(): the tweens and ticker callbacks it leaves and the console
startAnimation(ps, tp, tl, tk, con) ==
  IF ps.kind = "undefined" \/ Len(tp) = 0
    THEN [timeline |-> tl, ticker |-> tk,
          console |-> con \cup {"Cannot start animation: System/targets not ready."}]
  ELSE IF Len(ps.positions) # Len(tp)
    THEN [timeline |-> tl, ticker |-> tk,
          console |-> con \cup {"CRITICAL ERROR: Position buffer size != target size."}]
  ELSE [timeline |-> [camera |-> TRUE,
                      tweens |-> [i \in 1..(Len(tp) \div 3) |-> Tween(tp, 3 * (i - 1))],
                      rotation |-> tl.rotation],
        ticker |-> tk \cup {"updateParticles"},
        console |-> con \cup {"GSAP animation started"}]

\* the warnings after the loop
samplingWarnings(tp, att) ==
  (IF Len(tp) < 3 * particleCount THEN {"Could only find fewer front-facing samples."} ELSE {})
  \cup (IF att >= maxAttempts THEN {"Max sampling attempts reached."} ELSE {})

InitParticles ==
  /\ mesh \in VisualMeshes
  /\ pc = "new"
  /\ thrown = "none"
  /\ geometry = Unset
  /\ positionAttribute = Unset
  /\ colorAttribute = Unset
  /\ weightAttribute = Unset
  /\ distribution = Unset
  /\ face = <<ZeroVec, ZeroVec, ZeroVec>>
  /\ call = NoCall
  /\ PageStart("loading", {"model"})

\* the GLTF load callback up to the sampling loop: no mesh in the model, or the
\* mesh prepared and  sampler = new MeshSurfaceSampler( faceMesh ).build()
modelLoaded ==
  /\ step = "loading"
  /\ \E found \in BOOLEAN :
       IF ~found
         THEN /\ console' = console \cup {"No mesh found in GLTF model hierarchy!"}
              /\ loadingScreen' =
                   [loadingScreen EXCEPT !.innerText = "Error: No usable mesh found in model."]
              /\ step' = "returned"
              /\ UNCHANGED <<mesh, pc, sampler, face>>
         ELSE LET m == prepareGeometry(mesh)
                  r == construct(m)
                  b == buildResult(r.positionAttribute, r.weightAttribute, face)
              IN /\ mesh' = m
                 /\ geometry' = r.geometry
                 /\ positionAttribute' = r.positionAttribute
                 /\ colorAttribute' = r.colorAttribute
                 /\ weightAttribute' = r.weightAttribute
                 /\ distribution' = b.distribution
                 /\ face' = b.face
                 /\ pc' = "ready"
                 /\ loadingScreen' =
                      [loadingScreen EXCEPT !.innerText = "Processing geometry..."]
                 /\ step' = "sampling"
                 /\ UNCHANGED console
  /\ targetPositions' = <<>>
  /\ attempts' = 0
  /\ UNCHANGED <<thrown, call, pending, normal, particleSystem, timeline, ticker,
                 composer>>

\* the error callback of loader.load
modelError ==
  /\ step = "loading"
  /\ console' = console \cup {"Error loading model file"}
  /\ loadingScreen' = [loadingScreen EXCEPT !.innerText = "Error loading model. Check console."]
  /\ step' = "failed"
  /\ UNCHANGED <<mesh, pc, thrown, sampler, face, call, pending, targetPositions,
                 attempts, normal, particleSystem, timeline, ticker, composer>>

\* one iteration of the sampling loop: attempts++, sampler.sample( _position,
\* _normal ), and the push if _normal.z > frontNormalThreshold
sampleLoop ==
  /\ step = "sampling"
  /\ loopContinues(targetPositions, attempts)
  /\ attempts' = attempts + 1
  /\ \E u0 \in 0..(RandDen - 1), v0 \in 0..(RandDen - 1),
        faceIndex \in {binarySearch(distribution.array, r) :
                         r \in RandomTimes(cumulativeTotal(distribution.array))} :
       LET s == sampleFace(positionAttribute, colorAttribute, faceIndex, u0, v0, 2)
       IN /\ face' = s.face
          /\ normal' = s.targetNormal
          /\ targetPositions' = IF passesFilter(s.targetNormal)
                                  THEN targetPositions \o s.targetPosition
                                  ELSE targetPositions
  /\ UNCHANGED <<mesh, pc, thrown, sampler, call, step, pending, particleSystem,
                 timeline, ticker, loadingScreen, console, composer>>

\* the load callback after the loop: the warnings, the return if no target
\* was found, else createParticles, setupPostProcessing, the fade of the
\* loading screen and startAnimation
afterLoop ==
  /\ step = "sampling"
  /\ ~loopContinues(targetPositions, attempts)
  /\ LET warned == console \cup samplingWarnings(targetPositions, attempts) IN
     IF Len(targetPositions) = 0
       THEN /\ console' = warned \cup {"Failed to generate any target positions!"}
            /\ loadingScreen' =
                 [loadingScreen EXCEPT !.innerText = "Error: No particle targets generated."]
            /\ UNCHANGED <<particleSystem, timeline, ticker, composer>>
       ELSE LET c == createParticles(particleSystem, targetPositions, warned)
                a == startAnimation(c.particleSystem, targetPositions, timeline, ticker,
                                    c.console)
            IN /\ particleSystem' = c.particleSystem
               /\ composer' = TRUE
               /\ loadingScreen' = [loadingScreen EXCEPT !.innerText = "Creating particles...",
                                                         !.fading = TRUE]
               /\ timeline' = a.timeline
               /\ ticker' = a.ticker
               /\ console' = a.console
  /\ step' = "returned"
  /\ attempts' = 0
  /\ normal' = ZeroVec
  /\ UNCHANGED <<mesh, pc, thrown, sampler, face, call, pending, targetPositions>>

\* onComplete of the fade: loadingScreen.style.display = 'none'
hideComplete ==
  /\ loadingScreen.fading
  /\ loadingScreen.display = "block"
  /\ step # "sampling"
  /\ loadingScreen' = [loadingScreen EXCEPT !.display = "none"]
  /\ UNCHANGED <<mesh, pc, thrown, sampler, face, call, step, pending, targetPositions,
                 attempts, normal, particleSystem, timeline, ticker, console, composer>>

\* the loading manager ends the item of the model file once its callback has
\* returned: manager.onProgress writes the progress to the loading screen
\* (manager.onLoad only logs)
modelItemEnd ==
  /\ "model" \in pending
  /\ step \in {"returned", "failed"}
  /\ pending' = pending \ {"model"}
  /\ loadingScreen' = [loadingScreen EXCEPT !.innerText = "Loading (progress)"]
  /\ UNCHANGED <<mesh, pc, thrown, sampler, face, call, step, targetPositions,
                 attempts, normal, particleSystem, timeline, ticker, console, composer>>

NextParticles ==
  modelLoaded \/ modelError \/ sampleLoop \/ afterLoop \/ hideComplete \/ modelItemEnd

SpecParticles == InitParticles /\ [][NextParticles]_vars

----------------------------------------------------------------------------
\* script.js: the revision of the page that samples vertices of the mesh.
\* Two items are loaded through the loading manager, the particle texture and
\* the model; the manager calls onProgress whenever an item ends.

\* the meshes the model file may hold: 0 to 5 vertices
ScriptMeshes ==
  {FlatMesh(t, e, FALSE) : t \in {<<>>, <<TriFront>>}, e \in 0..2}

\* faceMesh.geometry.attributes.position.array: the flat array of coordinates
RECURSIVE flatArray(_, _)
flatArray(arr, k) ==
  IF k > Len(arr) THEN <<>> ELSE arr[k] \o flatArray(arr, k + 1)

\* the index rounded to the nearest vertex instead of down
randomIndexRounded(k, numVertices) == (2 * k * numVertices + RandDen) \div (2 * RandDen)

\* Math.floor( Math.random() * numVertices ) for the draw k / RandDen
randomIndex(k, numVertices) == (k * numVertices) \div RandDen

\* what one iteration of the vertex-sampling loop pushes, and whether it took
\* the fallback branch
vertexSample(positions, k) ==
  LET vertexIndex == randomIndex(k, Len(positions) \div 3) * 3
  IN IF vertexIndex + 2 < Len(positions)
       THEN [push |-> <<positions[vertexIndex + 1], positions[vertexIndex + 2],
                        positions[vertexIndex + 3]>>,
             fallback |-> FALSE]
       ELSE [push |-> <<0, 0, 0>>, fallback |-> TRUE]

\* createParticles( texture ) of script.js: the buffer holds particleCount * 3
\* numbers
createParticlesJs(ps, tp, con) ==
  IF Len(tp) = 0
    THEN [particleSystem |-> ps,
          console |-> con \cup {"Cannot create particles: targetPositions empty."}]
    ELSE [particleSystem |->
            ParticleSystem([i \in 1..(3 * particleCount) |-> startPosition[((i - 1) % 3) + 1]]),
          console |-> con]

\* the particles startAnimation of script.js creates a tween for: those whose
\* index i3 + 2 is inside both arrays
tweenedJs(ps, tp) ==
  {i \in 0..(particleCount - 1) :
     ~(3 * i + 2 >= Len(ps.positions) \/ 3 * i + 2 >= Len(tp))}

RECURSIVE tweensJs(_, _, _)
tweensJs(ps, tp, i) ==
  IF i >= particleCount THEN <<>>
  ELSE (IF i \in tweenedJs(ps, tp) THEN <<Tween(tp, 3 * i)>> ELSE <<>>)
         \o tweensJs(ps, tp, i + 1)

\* startAnimation() of script.js
startAnimationJs(ps, tp, tl, tk, con) ==
  IF ps.kind = "undefined" \/ Len(tp) = 0
    THEN [timeline |-> tl, ticker |-> tk,
          console |-> con \cup {"Cannot start animation: System/targets not ready."}]
  ELSE IF Len(ps.positions) # Len(tp)
    THEN [timeline |-> tl, ticker |-> tk,
          console |-> con \cup {"Position buffer size does not match target positions size."}]
  ELSE [timeline |-> [camera |-> TRUE, tweens |-> tweensJs(ps, tp, 0), rotation |-> TRUE],
        ticker |-> tk \cup {"updateParticles"},
        console |-> con \cup {"GSAP animation started"}]

\* manager.onProgress: loadingScreen.innerText = `Loading n/m... url`
onProgress(ls) == [ls EXCEPT !.innerText = "Loading (progress)"]

\* manager.onError: loadingScreen.innerText = `Error loading url. ...`
onError(ls) == [ls EXCEPT !.innerText = "Error loading url. Check console and file paths."]

InitScript ==
  /\ mesh \in ScriptMeshes
  /\ pc = "new"
  /\ thrown = "none"
  /\ geometry = Unset
  /\ positionAttribute = Unset
  /\ colorAttribute = Unset
  /\ weightAttribute = Unset
  /\ distribution = Unset
  /\ face = <<ZeroVec, ZeroVec, ZeroVec>>
  /\ call = NoCall
  /\ PageStart("loading", {"texture", "model"})

\* the texture item ends, loaded or not: the callbacks of textureLoader.load,
\* manager.onError if it failed, then manager.onProgress
textureEnd ==
  /\ "texture" \in pending
  /\ step # "sampling"
  /\ pending' = pending \ {"texture"}
  /\ \E loaded \in BOOLEAN :
       IF loaded
         THEN /\ loadingScreen' = onProgress(loadingScreen)
              /\ UNCHANGED console
         ELSE /\ loadingScreen' = onProgress(onError(loadingScreen))
              /\ console' = console \cup {"Error loading texture", "Error loading url"}
  /\ UNCHANGED <<mesh, pc, thrown, sampler, face, call, step, targetPositions,
                 attempts, normal, particleSystem, timeline, ticker, composer>>

\* the model item ends, before or after the model callback ran:
\* manager.onProgress (manager.onLoad only logs)
modelItemEndJs ==
  /\ "model" \in pending
  /\ step # "sampling"
  /\ pending' = pending \ {"model"}
  /\ loadingScreen' = onProgress(loadingScreen)
  /\ UNCHANGED <<mesh, pc, thrown, sampler, face, call, step, targetPositions,
                 attempts, normal, particleSystem, timeline, ticker, console, composer>>

\* the error callback of loader.load, then manager.onError
modelErrorJs ==
  /\ step = "loading"
  /\ console' = console \cup {"An error happened during model loading process",
                              "Error loading url"}
  /\ loadingScreen' =
       onError([loadingScreen EXCEPT !.innerText = "Error loading model file. Check console."])
  /\ step' = "failed"
  /\ UNCHANGED <<mesh, pc, thrown, sampler, face, call, pending, targetPositions,
                 attempts, normal, particleSystem, timeline, ticker, composer>>

\* the GLTF load callback up to the vertex-sampling loop: no mesh found, or
\* the mesh centred and scaled and, if it has no vertex, the return
modelLoadedJs ==
  /\ step = "loading"
  /\ \E found \in BOOLEAN :
       IF ~found
         THEN /\ console' = console \cup {"No mesh found in GLTF model hierarchy!"}
              /\ loadingScreen' =
                   [loadingScreen EXCEPT !.innerText = "Error: No usable mesh found in the loaded model file."]
              /\ step' = "returned"
              /\ UNCHANGED <<mesh, targetPositions>>
         ELSE LET arr == centerScale(mesh.geometry.attributes.position.array) IN
              /\ mesh' = [mesh EXCEPT !.geometry.attributes.position = Attribute(3, arr)]
              /\ IF Len(flatArray(arr, 1)) = 0
                   THEN /\ console' = console \cup {"The found mesh geometry has no vertices!"}
                        /\ loadingScreen' =
                             [loadingScreen EXCEPT !.innerText = "Error: Found mesh has no vertex data."]
                        /\ step' = "returned"
                        /\ UNCHANGED targetPositions
                   ELSE /\ loadingScreen' =
                             [loadingScreen EXCEPT !.innerText = "Processing vertices..."]
                        /\ targetPositions' = <<>>
                        /\ step' = "sampling"
                        /\ UNCHANGED console
  /\ UNCHANGED <<pc, thrown, sampler, face, call, pending, attempts, normal,
                 particleSystem, timeline, ticker, composer>>

\* one iteration of  for ( let i = 0; i < particleCount; i++ )
vertexLoop ==
  /\ step = "sampling"
  /\ attempts < particleCount
  /\ attempts' = attempts + 1
  /\ \E k \in 0..(RandDen - 1) :
       LET v == vertexSample(flatArray(mesh.geometry.attributes.position.array, 1), k)
       IN /\ targetPositions' = targetPositions \o v.push
          /\ console' = IF v.fallback
                          THEN console \cup {"Potential vertex index issue, using fallback."}
                          ELSE console
  /\ UNCHANGED <<mesh, pc, thrown, sampler, face, call, step, pending, normal,
                 particleSystem, timeline, ticker, loadingScreen, composer>>

\* the load callback after the loop: the return if no target was generated,
\* else createParticles, setupPostProcessing, the fade of the loading screen
\* and startAnimation
afterVertexLoop ==
  /\ step = "sampling"
  /\ ~(attempts < particleCount)
  /\ IF Len(targetPositions) = 0
       THEN /\ console' = console \cup {"Failed to generate any target positions!"}
            /\ loadingScreen' =
                 [loadingScreen EXCEPT !.innerText = "Error: Could not generate particle targets."]
            /\ UNCHANGED <<particleSystem, timeline, ticker, composer>>
       ELSE LET c == createParticlesJs(particleSystem, targetPositions, console)
                a == startAnimationJs(c.particleSystem, targetPositions, timeline, ticker,
                                      c.console)
            IN /\ particleSystem' = c.particleSystem
               /\ composer' = TRUE
               /\ loadingScreen' = [loadingScreen EXCEPT !.innerText = "Creating particles...",
                                                         !.fading = TRUE]
               /\ timeline' = a.timeline
               /\ ticker' = a.ticker
               /\ console' = a.console
  /\ step' = "returned"
  /\ attempts' = 0
  /\ UNCHANGED <<mesh, pc, thrown, sampler, face, call, pending, targetPositions, normal>>

\* onComplete of the fade: loadingScreen.style.display = 'none'
hideCompleteJs ==
  /\ loadingScreen.fading
  /\ loadingScreen.display = "block"
  /\ step # "sampling"
  /\ loadingScreen' = [loadingScreen EXCEPT !.display = "none"]
  /\ UNCHANGED <<mesh, pc, thrown, sampler, face, call, step, pending, targetPositions,
                 attempts, normal, particleSystem, timeline, ticker, console, composer>>

NextScript ==
  textureEnd \/ modelItemEndJs \/ modelErrorJs \/ modelLoadedJs \/ vertexLoop
    \/ afterVertexLoop \/ hideCompleteJs

SpecScript == InitScript /\ [][NextScript]_vars

----------------------------------------------------------------------------
\* The first revision of the page: the model callback samples vertices and
\* creates the particles, and the animation is started by manager.onLoad,
\* which the loading manager calls when the last of its items has ended.

\* where every particle starts, for the draws 0 of Math.random(): radius 10,
\* phi = acos( -1 ), theta = 0, that is ( 0, 0, 10 * cos( phi ) + 5 - 8 )
startPositionRev0 == <<0, 0, -13>>

\* the vertex-sampling loop: the triples it appends for the draws ks, one draw
\* per iteration; reading past the end of positions yields undefined
RECURSIVE vertexSamplesRev0(_, _, _)
vertexSamplesRev0(positions, ks, i) ==
  IF i > Len(ks) THEN <<>>
  ELSE LET vertexIndex == randomIndex(ks[i], Len(positions) \div 3) * 3
       IN <<targetAt(positions, vertexIndex), targetAt(positions, vertexIndex + 1),
            targetAt(positions, vertexIndex + 2)>>
            \o vertexSamplesRev0(positions, ks, i + 1)

\* createParticles( texture ) of the first revision
createParticlesRev0 ==
  ParticleSystem([i \in 1..(3 * particleCount) |-> startPositionRev0[((i - 1) % 3) + 1]])

\* a startAnimation that does not look whether the particle system exists
startAnimationRev0Unguarded(ps, tp, tl, tk) ==
  [timeline |-> [camera |-> TRUE,
                 tweens |-> [i \in 1..particleCount |-> Tween(tp, 3 * (i - 1))],
                 rotation |-> TRUE],
   ticker |-> tk \cup {"updateParticles"}]

\* startAnimation() of the first revision: if ( !particleSystem ) return;
startAnimationRev0(ps, tp, tl, tk) ==
  IF ps.kind = "undefined"
    THEN [timeline |-> tl, ticker |-> tk]
    ELSE [timeline |-> [camera |-> TRUE,
                        tweens |-> [i \in 1..particleCount |-> Tween(tp, 3 * (i - 1))],
                        rotation |-> TRUE],
          ticker |-> tk \cup {"updateParticles"}]

InitRev0 ==
  /\ mesh \in ScriptMeshes
  /\ pc = "new"
  /\ thrown = "none"
  /\ geometry = Unset
  /\ positionAttribute = Unset
  /\ colorAttribute = Unset
  /\ weightAttribute = Unset
  /\ distribution = Unset
  /\ face = <<ZeroVec, ZeroVec, ZeroVec>>
  /\ call = NoCall
  /\ step = "loading"
  /\ pending = {"texture", "model"}
  /\ targetPositions = <<>>
  /\ attempts = 0
  /\ normal = ZeroVec
  /\ particleSystem = NoParticleSystem
  /\ timeline = NoTimeline
  /\ ticker = {}
  /\ loadingScreen = LoadingScreen("Loading...")
  /\ console = {}
  /\ composer = TRUE

\* the loading manager ends item `url`: manager.onProgress, and, when it was
\* the last item, manager.onLoad: the loading screen is hidden and
\* startAnimation() is called
itemEndRev0(url) ==
  /\ pending' = pending \ {url}
  /\ IF pending \ {url} = {}
       THEN LET a == startAnimationRev0(particleSystem, targetPositions, timeline, ticker)
            IN /\ loadingScreen' = [onProgress(loadingScreen) EXCEPT !.display = "none"]
               /\ timeline' = a.timeline
               /\ ticker' = a.ticker
       ELSE /\ loadingScreen' = onProgress(loadingScreen)
            /\ UNCHANGED <<timeline, ticker>>

\* the texture item ends: loaded, or failed (manager.onError first)
textureEndRev0 ==
  /\ "texture" \in pending
  /\ \E loaded \in BOOLEAN :
       console' = IF loaded THEN console ELSE console \cup {"Error loading url"}
  /\ itemEndRev0("texture")
  /\ UNCHANGED <<mesh, pc, thrown, sampler, face, call, step, targetPositions,
                 attempts, normal, particleSystem, composer>>

\* the model item ends, before or after the model callback ran
modelItemEndRev0 ==
  /\ "model" \in pending
  /\ itemEndRev0("model")
  /\ UNCHANGED <<mesh, pc, thrown, sampler, face, call, step, targetPositions,
                 attempts, normal, particleSystem, console, composer>>

\* the error callback of loader.load, then manager.onError
modelErrorRev0 ==
  /\ step = "loading"
  /\ console' = console \cup {"An error happened during model loading", "Error loading url"}
  /\ loadingScreen' = onError([loadingScreen EXCEPT !.innerText = "Error loading model. Check console."])
  /\ step' = "failed"
  /\ UNCHANGED <<mesh, pc, thrown, sampler, face, call, pending, targetPositions,
                 attempts, normal, particleSystem, timeline, ticker, composer>>

\* the GLTF load callback: no mesh among the children of the scene, or the
\* mesh centred and scaled, particleCount vertices sampled into
\* targetPositions and createParticles
modelLoadedRev0 ==
  /\ step = "loading"
  /\ \E found \in BOOLEAN :
       IF ~found
         THEN /\ console' = console \cup {"No mesh found in the GLTF model!"}
              /\ loadingScreen' =
                   [loadingScreen EXCEPT !.innerText = "Error: No mesh found in model."]
              /\ UNCHANGED <<mesh, targetPositions, particleSystem>>
         ELSE LET arr == centerScale(mesh.geometry.attributes.position.array) IN
              /\ mesh' = [mesh EXCEPT !.geometry.attributes.position = Attribute(3, arr)]
              /\ \E ks \in [1..particleCount -> 0..(RandDen - 1)] :
                   targetPositions' =
                     targetPositions \o vertexSamplesRev0(flatArray(arr, 1), ks, 1)
              /\ particleSystem' = createParticlesRev0
              /\ UNCHANGED <<console, loadingScreen>>
  /\ step' = "returned"
  /\ UNCHANGED <<pc, thrown, sampler, face, call, pending, attempts, normal,
                 timeline, ticker, composer>>

NextRev0 == textureEndRev0 \/ modelItemEndRev0 \/ modelErrorRev0 \/ modelLoadedRev0

SpecRev0 == InitRev0 /\ [][NextRev0]_vars

----------------------------------------------------------------------------
\* Properties

\* the entries of a built distribution, and the weight of face i they encode
entries == distribution.array
entryWeight(d, i) == IF i = 0 THEN d[1] ELSE d[i + 1] - d[i]
NonDecreasing(d) == \A i \in 1..(Len(d) - 1) : d[i] <= d[i + 1]
\* the least element of a non-empty set of integers
Least(S) == CHOOSE x \in S : \A y \in S : x <= y

\* C1 (as stated): binarySearch(r), 0 <= r <= last entry, returns the smallest
\* index i with cumulative[i] >= r, also when r equals an entry.
C1_SmallestAtLeast ==
  (pc = "searched" /\ call.op = "binarySearch"
     /\ call.value \in 0..cumulativeTotal(entries)) =>
    call.result = Least({i \in 0..(Len(entries) - 1) : entries[i + 1] >= call.value})

\* C1 (amended): on a non-empty, non-decreasing distribution built by build()
\* and 0 <= r <= last entry, binarySearch(r) returns the smallest index i with
\* cumulative[i] > r, and the last index when no entry is greater than r.
C1_SmallestGreater ==
  (pc = "searched" /\ call.op = "binarySearch" /\ NonDecreasing(entries)
     /\ call.value \in 0..cumulativeTotal(entries)) =>
    LET above == {i \in 0..(Len(entries) - 1) : entries[i + 1] > call.value}
    IN call.result = IF above = {} THEN Len(entries) - 1 ELSE Least(above)

\* C1 witness: the distribution [1,3,6,10] searched for 4 gives index 2.
C1_Witness ==
  /\ pc = "searched"
  /\ entries = <<1, 3, 6, 10>>
  /\ call.value = 4
  /\ call.result = 2

\* C1 witness of the tie: [1,3,6,10] searched for 3 gives index 2, not 1.
C1_TieWitness ==
  /\ pc = "searched"
  /\ entries = <<1, 3, 6, 10>>
  /\ call.value = 3
  /\ call.result = 2

\* C2: with the draw r uniform over [0, totalWeight), the share of r-values
\* that sample() maps to triangle i is faceWeight_i / totalWeight, for every
\* triangle i (all face weights non-negative, total weight positive: the
\* setting in which the shares are probabilities).
C2_Shares ==
  (pc \in {"ready", "sampled"} /\ distribution.kind = "Float32Array"
     /\ Len(entries) > 0 /\ cumulativeTotal(entries) > 0
     /\ \A i \in 0..(Len(entries) - 1) : entryWeight(entries, i) >= 0) =>
    LET draws == RandomTimes(cumulativeTotal(entries))
    IN \A i \in 0..(Len(entries) - 1) :
         Cardinality({r \in draws : binarySearch(entries, r) = i}) * cumulativeTotal(entries)
           = entryWeight(entries, i) * Cardinality(draws)

\* C2 witness: two triangles of equal area whose vertex weights sum to 1 and 3
\* (distribution [1,4]); a draw in the last quarter selected the second one.
C2_Witness ==
  /\ pc = "sampled"
  /\ weightAttribute.kind = "attribute"
  /\ entries = <<1, 4>>
  /\ call.r = 3
  /\ call.faceIndex = 1

\* the area of triangle j of a triangle list in the plane z = 0 (doubled), by
\* the shoelace formula, and the sum of its three vertex weights
Abs(x) == IF x < 0 THEN -x ELSE x
DoubleArea(pos, j) ==
  LET a == pos[3 * j + 1]
      b == pos[3 * j + 2]
      c == pos[3 * j + 3]
  IN Abs(a[1] * (b[2] - c[2]) + b[1] * (c[2] - a[2]) + c[1] * (a[2] - b[2]))
WeightSum(w, j) == w[3 * j + 1] + w[3 * j + 2] + w[3 * j + 3]
\* faceWeight_j, doubled: the area times the weight sum when a weight channel
\* is set, times 1 when none is
DoubleFaceWeight(pos, wAttr, j) ==
  DoubleArea(pos, j) * (IF wAttr.kind = "attribute" THEN WeightSum(wAttr.array, j) ELSE 1)
RECURSIVE DoubleRunningTotal(_, _, _)
DoubleRunningTotal(pos, wAttr, i) ==
  IF i < 0 THEN 0
  ELSE DoubleRunningTotal(pos, wAttr, i - 1) + DoubleFaceWeight(pos, wAttr, i)
Triangles(posAttr) == count(posAttr) \div 3

\* C3: a build() step leaves a distribution with exactly one entry per
\* triangle, entry i being the sum over triangles 0..i of area times (sum of
\* the 3 vertex weights if a weight channel is set, 1 otherwise).
C3_BuildCumulative ==
  [][build =>
       /\ distribution'.kind = "Float32Array"
       /\ Len(distribution'.array) = Triangles(positionAttribute)
       /\ \A i \in 0..(Triangles(positionAttribute) - 1) :
            2 * distribution'.array[i + 1]
              = DoubleRunningTotal(positionAttribute.array, weightAttribute, i)]_vars

\* C3 witness: three triangles of areas 1, 1, 0 with weight sums 1, 3, 2 and
\* the weight channel set, built into [1,4,4].
C3_Witness ==
  /\ pc = "ready"
  /\ weightAttribute.kind = "attribute"
  /\ Triangles(positionAttribute) = 3
  /\ distribution.kind = "Float32Array"
  /\ entries = <<1, 4, 4>>

\* C4 (as stated): for every mesh and every weight channel the sampler
\* accepts, build() leaves a non-decreasing distribution whose last entry is
\* the total weighted area.
C4_NonDecreasing ==
  [][build =>
       /\ NonDecreasing(distribution'.array)
       /\ Triangles(positionAttribute) > 0 =>
            2 * cumulativeTotal(distribution'.array)
              = DoubleRunningTotal(positionAttribute.array, weightAttribute,
                                   Triangles(positionAttribute) - 1)]_vars

\* C4 (amended): build() leaves a non-decreasing distribution whenever no
\* triangle has a negative face weight (no negative vertex-weight sum on a
\* triangle of positive area), and in every case the last entry is the total
\* weighted area.
C4_NonDecreasingIfNonNegative ==
  [][build =>
       /\ (\A j \in 0..(Triangles(positionAttribute) - 1) :
             DoubleFaceWeight(positionAttribute.array, weightAttribute, j) >= 0)
            => NonDecreasing(distribution'.array)
       /\ Triangles(positionAttribute) > 0 =>
            2 * cumulativeTotal(distribution'.array)
              = DoubleRunningTotal(positionAttribute.array, weightAttribute,
                                   Triangles(positionAttribute) - 1)]_vars

\* C4 witness: weight sums 3 and 1 on two triangles of area 1, built into [3,4].
C4_Witness ==
  /\ pc = "ready"
  /\ weightAttribute.kind = "attribute"
  /\ distribution.kind = "Float32Array"
  /\ entries = <<3, 4>>

\* C5: after the fold (u, v replaced by 1-u, 1-v exactly when u + v > 1) the
\* coordinates satisfy u >= 0, v >= 0, u + v <= 1, and the position written
\* is u*A + v*B + (1-u-v)*C for the vertices A, B, C of the selected triangle.
\* (u, v are numerators over RandDen and the position is RandDen times the
\* point.)
C5_Barycentric ==
  (pc = "sampled" /\ call.op = "sample" /\ Len(entries) > 0) =>
    LET reflect == call.u + call.v > RandDen
        u == IF reflect THEN RandDen - call.u ELSE call.u
        v == IF reflect THEN RandDen - call.v ELSE call.v
        A == positionAttribute.array[3 * call.faceIndex + 1]
        B == positionAttribute.array[3 * call.faceIndex + 2]
        C == positionAttribute.array[3 * call.faceIndex + 3]
    IN /\ u >= 0
       /\ v >= 0
       /\ u + v <= RandDen
       /\ \A k \in 1..3 :
            call.targetPosition[k] = u * A[k] + v * B[k] + (RandDen - u - v) * C[k]

\* C5 witness: a sample whose draws were reflected, on a triangle of positive
\* area.
C5_Witness ==
  /\ pc = "sampled"
  /\ call.op = "sample"
  /\ call.u + call.v > RandDen
  /\ call.targetNormal = <<0, 0, 1>>

\* C6: a sample() call leaves the distribution, and every other field of the
\* sampler, as it was.
C6_SampleKeepsDistribution ==
  [][(pc = "ready" /\ call'.op = "sample") =>
       (distribution' = distribution /\ sampler' = sampler)]_vars

\* C6 witness: a sample() has returned on the distribution [1,2,3].
C6_Witness ==
  /\ pc = "sampled"
  /\ call.op = "sample"
  /\ distribution.kind = "Float32Array"
  /\ entries = <<1, 2, 3>>

\* C7 (as stated): for a mesh whose total weighted area is zero, build() or
\* the first sample() fails; sample() never returns normally with a position.
C7_DegenerateFails ==
  (pc = "sampled" /\ call.op = "sample" /\ Len(entries) > 0) =>
    cumulativeTotal(entries) > 0

\* C8: sample() on a sampler that was never built throws and writes nothing
\* to the position, normal or colour target.
C8_SampleBeforeBuild ==
  (call.op = "sample" /\ distribution.kind = "null") =>
    /\ pc = "threw"
    /\ thrown # "none"
    /\ call.targetPosition = FreshVec
    /\ call.targetNormal = FreshVec
    /\ call.targetColor = FreshVec

\* C8 witness: sample() was called right after the constructor and threw.
C8_Witness ==
  /\ pc = "threw"
  /\ call.op = "sample"
  /\ distribution.kind = "null"
  /\ call.nargs = 3

\* C9 (as stated): a position array that does not hold a whole number of
\* triangles is rejected, and no distribution is produced.
C9_PartialRejected ==
  (positionAttribute.kind = "attribute" /\ count(positionAttribute) % 3 # 0) =>
    distribution.kind # "Float32Array"

\* the constructor has run and threw
ConstructionFailed == pc = "threw" /\ geometry = Unset
Indexed == mesh.geometry.index.kind = "attribute"

\* C10 (as stated): constructing a sampler on an indexed mesh fails with an
\* error.
C10_IndexedFails ==
  (Indexed /\ pc # "new") => ConstructionFailed

\* C10 (amended): constructing a sampler on an indexed mesh does not fail: the
\* sampler keeps a non-indexed copy of the geometry holding, for every index
\* entry k, the position, weight and colour of vertex index[k].
C10_IndexedConverted ==
  (Indexed /\ pc # "new") =>
    LET idx == mesh.geometry.index.array
        own == geometry.attributes
        given == mesh.geometry.attributes
    IN /\ ~ConstructionFailed
       /\ geometry.index.kind = "null"
       /\ positionAttribute = own.position
       /\ \A n \in {"position", "weight", "color"} :
            /\ Len(own[n].array) = Len(idx)
            /\ \A k \in 1..Len(idx) : own[n].array[k] = given[n].array[idx[k] + 1]

\* C10 witness: a sample() has returned on the sampler of an indexed mesh of
\* two triangles.
C10_Witness ==
  /\ Indexed
  /\ pc = "sampled"
  /\ Triangles(positionAttribute) = 2
  /\ call.faceIndex = 1

\* C13: no step of the sampler (constructor, setWeightAttribute, build,
\* sample, and the caller reading the sample) changes the caller's mesh: its
\* index, vertex positions, vertex weights and vertex colours stay as given.
C13_MeshNeverMutated == [][mesh' = mesh]_vars

\* C13 witness: on an indexed mesh of two triangles the constructor, then
\* setWeightAttribute( 'weight' ), build() and sample() have run.
C13_Witness ==
  /\ pc = "sampled"
  /\ mesh.geometry.index.kind = "attribute"
  /\ mesh.geometry.index.array = <<0, 1, 2, 2, 1, 3>>
  /\ weightAttribute.kind = "attribute"
  /\ call.nargs = 3

\* C14: on return from sample(), the colour target holds u*Ca + v*Cb +
\* (1-u-v)*Cc for the colours Ca, Cb, Cc of the vertices of the selected
\* triangle and the folded u, v used for the position, if a colour target was
\* passed and the mesh has a colour channel; it is untouched if no colour
\* target was passed or the mesh has no colour channel; and the normal target
\* is untouched if none was passed.  (Colours are kept multiplied by RandDen.)
C14_ColorTarget ==
  (pc = "sampled" /\ call.op = "sample" /\ Len(entries) > 0) =>
    LET reflect == call.u + call.v > RandDen
        u == IF reflect THEN RandDen - call.u ELSE call.u
        v == IF reflect THEN RandDen - call.v ELSE call.v
        Ca == colorAttribute.array[3 * call.faceIndex + 1]
        Cb == colorAttribute.array[3 * call.faceIndex + 2]
        Cc == colorAttribute.array[3 * call.faceIndex + 3]
    IN /\ (call.nargs = 3 /\ colorAttribute.kind = "attribute") =>
            \A k \in 1..3 :
              call.targetColor[k] = u * Ca[k] + v * Cb[k] + (RandDen - u - v) * Cc[k]
       /\ (call.nargs < 3 \/ colorAttribute.kind = "undefined") =>
            call.targetColor = FreshVec
       /\ call.nargs < 2 => call.targetNormal = FreshVec

\* C14 witness: a sample with reflected draws wrote a colour interpolated from
\* the three vertex colours of its triangle.
C14_Witness ==
  /\ pc = "sampled"
  /\ call.op = "sample"
  /\ call.nargs = 3
  /\ colorAttribute.kind = "attribute"
  /\ call.u + call.v > RandDen
  /\ call.targetColor # FreshVec
  /\ call.targetColor[1] > 0
  /\ call.targetColor[2] > 0

\* C19: on a non-empty distribution of length n, binarySearch returns an index
\* in 0..n-1 for every value: inside the range of the distribution, below
\* zero, above the last entry, and NaN.
C19_IndexInRange ==
  (pc = "searched" /\ call.op = "binarySearch" /\ Len(entries) > 0) =>
    call.result \in 0..(Len(entries) - 1)

\* C19 witness: [1,3,6,10] searched for 11, above its last entry, gives the
\* last index 3.
C19_Witness ==
  /\ pc = "searched"
  /\ entries = <<1, 3, 6, 10>>
  /\ call.value = 11
  /\ call.result = 3

\* C20: when all face weights are non-negative and their total is positive,
\* the triangle sample() selects has a positive face weight, for every draw
\* r in [0, total).
C20_NeverZeroWeightFace ==
  (pc = "sampled" /\ call.op = "sample" /\ Len(entries) > 0
     /\ cumulativeTotal(entries) > 0
     /\ \A i \in 0..(Len(entries) - 1) : entryWeight(entries, i) >= 0) =>
    entryWeight(entries, call.faceIndex) > 0

\* C20 witness: zero-weight triangles first and last ([0,1,1]); the draw 0
\* selected the middle triangle.
C20_Witness ==
  /\ pc = "sampled"
  /\ call.op = "sample"
  /\ entries = <<0, 1, 1>>
  /\ call.r = 0
  /\ call.faceIndex = 1

\* startAnimation() has been called: it logged one of its three outcomes
StartAnimationReached ==
  console \cap {"Cannot start animation: System/targets not ready.",
                "CRITICAL ERROR: Position buffer size != target size.",
                "GSAP animation started"} # {}

\* C11: the sampling loop performs at most maxAttempts = 5 * particleCount
\* sample() calls and never holds more than particleCount points; every
\* iteration counts one attempt, none runs once particleCount points are
\* held, and an iteration appends a point (three numbers) only if the normal
\* of its sample passed the filter normal.z > 0.1.  Every iteration raising
\* the bounded counter, the loop ends after at most maxAttempts iterations.
C11_BoundedSampling ==
  [][/\ attempts' <= maxAttempts
     /\ Len(targetPositions') <= 3 * particleCount
     /\ (step = "sampling" /\ step' = "sampling") =>
          /\ attempts' = attempts + 1
          /\ Len(targetPositions) < 3 * particleCount
          /\ targetPositions' # targetPositions =>
               /\ 10 * normal'[3] > 1
               /\ Len(targetPositions') = Len(targetPositions) + 3]_vars

\* C11 witness: on a mesh of a front-facing and a back-facing triangle the
\* loop has used all its attempts and holds one point fewer than asked for.
C11_Witness ==
  /\ step = "sampling"
  /\ attempts = maxAttempts
  /\ Len(targetPositions) = 3 * (particleCount - 1)
  /\ normal = <<0, 0, -1>>

\* C12: when the callback leaves the loop with the attempts exhausted and k
\* accepted samples, 0 < k < particleCount, it logs both warnings and goes on:
\* the particle system holds exactly k particles (3k numbers) and the timeline
\* one position tween per accepted sample, tween i leading particle i to
\* sample i, and the ticker callback is registered.
C12_ProceedsWithFewer ==
  [][(step = "sampling" /\ step' = "returned" /\ attempts >= maxAttempts
        /\ 0 < Len(targetPositions) /\ Len(targetPositions) < 3 * particleCount) =>
       LET k == Len(targetPositions) \div 3 IN
       /\ "Could only find fewer front-facing samples." \in console'
       /\ "Max sampling attempts reached." \in console'
       /\ particleSystem'.kind = "Points"
       /\ Len(particleSystem'.positions) = 3 * k
       /\ Len(timeline'.tweens) = k
       /\ \A i \in 1..k :
            timeline'.tweens[i] =
              [i3 |-> 3 * (i - 1),
               to |-> <<targetPositions[3 * i - 2], targetPositions[3 * i - 1],
                        targetPositions[3 * i]>>]
       /\ "updateParticles" \in ticker'
       /\ loadingScreen'.fading]_vars

\* C12 witness: the callback has returned after exhausting the attempts with
\* one accepted sample; one particle and one tween exist.
C12_Witness ==
  /\ step = "returned"
  /\ "Max sampling attempts reached." \in console
  /\ Len(targetPositions) = 3
  /\ particleSystem.kind = "Points"
  /\ Len(timeline.tweens) = 1

\* C18: whenever the model callback has reached startAnimation, the position
\* buffer and targetPositions both hold 3k numbers for the k accepted samples,
\* 1 <= k <= particleCount, the size-mismatch abort was not taken, and there
\* are k tweens whose indices i3 .. i3+2 lie inside both arrays.
C18_BuffersMatch ==
  (step = "returned" /\ StartAnimationReached) =>
    LET k == Len(targetPositions) \div 3 IN
    /\ particleSystem.kind = "Points"
    /\ Len(targetPositions) = 3 * k
    /\ Len(particleSystem.positions) = 3 * k
    /\ 1 <= k
    /\ k <= particleCount
    /\ "CRITICAL ERROR: Position buffer size != target size." \notin console
    /\ "GSAP animation started" \in console
    /\ Len(timeline.tweens) = k
    /\ \A i \in 1..Len(timeline.tweens) :
         /\ timeline.tweens[i].i3 + 2 < Len(particleSystem.positions)
         /\ timeline.tweens[i].i3 + 2 < Len(targetPositions)

\* C18 witness: startAnimation ran with all particleCount samples found.
C18_Witness ==
  /\ step = "returned"
  /\ "GSAP animation started" \in console
  /\ Len(targetPositions) = 3 * particleCount
  /\ Len(particleSystem.positions) = 3 * particleCount

\* the model callback of script.js ended on one of its error paths
FailedJs ==
  console \cap {"An error happened during model loading process",
                "No mesh found in GLTF model hierarchy!",
                "The found mesh geometry has no vertices!",
                "Failed to generate any target positions!"} # {}

\* the error messages script.js writes to the loading screen
ErrorTextsJs ==
  {"Error loading url. Check console and file paths.",
   "Error loading model file. Check console.",
   "Error: No usable mesh found in the loaded model file.",
   "Error: Found mesh has no vertex data.",
   "Error: Could not generate particle targets."}

StartAnimationReachedJs ==
  console \cap {"Cannot start animation: System/targets not ready.",
                "Position buffer size does not match target positions size.",
                "GSAP animation started"} # {}

\* C15 (as stated): once the model load failed, no mesh was found, the mesh
\* had no vertex or no target was generated, the loading screen is never
\* hidden and keeps an error message, and createParticles, setupPostProcessing
\* and startAnimation have not run; and the fade of the loading screen is
\* started only after createParticles and setupPostProcessing have run.
C15_HiddenOnlyOnSuccess ==
  /\ FailedJs =>
       /\ ~loadingScreen.fading
       /\ loadingScreen.display = "block"
       /\ loadingScreen.innerText \in ErrorTextsJs
       /\ particleSystem.kind = "undefined"
       /\ ~composer
       /\ ~StartAnimationReachedJs
       /\ timeline = NoTimeline
  /\ loadingScreen.fading => (particleSystem.kind = "Points" /\ composer)

\* C15, without the text of the loading screen: on the error paths the loading
\* screen is never hidden and nothing is created, and the fade starts only
\* after createParticles and setupPostProcessing.
C15_NeverHiddenOnFailure ==
  /\ FailedJs =>
       /\ ~loadingScreen.fading
       /\ loadingScreen.display = "block"
       /\ particleSystem.kind = "undefined"
       /\ ~composer
       /\ ~StartAnimationReachedJs
       /\ timeline = NoTimeline
  /\ loadingScreen.fading => (particleSystem.kind = "Points" /\ composer)

\* C17: on a mesh with at least one vertex (a position array whose length is
\* a positive multiple of 3), no iteration of the vertex-sampling loop takes
\* the fallback branch: every triple pushed is a vertex of the mesh, the loop
\* has pushed three numbers per iteration, and after the loop targetPositions
\* holds 3 * particleCount numbers.
C17_VertexInBounds ==
  (step \in {"sampling", "returned"}
     /\ "No mesh found in GLTF model hierarchy!" \notin console
     /\ count(mesh.geometry.attributes.position) > 0) =>
    LET arr == mesh.geometry.attributes.position.array IN
    /\ "Potential vertex index issue, using fallback." \notin console
    /\ step = "sampling" => Len(targetPositions) = 3 * attempts
    /\ step = "returned" => Len(targetPositions) = 3 * particleCount
    /\ \A j \in 1..(Len(targetPositions) \div 3) :
         \E n \in 1..Len(arr) :
           arr[n] = <<targetPositions[3 * j - 2], targetPositions[3 * j - 1],
                      targetPositions[3 * j]>>

\* C17 witness: on a mesh of three vertices the loop has run particleCount
\* times and its last pick was the last vertex.
C17_Witness ==
  /\ step = "returned"
  /\ count(mesh.geometry.attributes.position) = 3
  /\ Len(targetPositions) = 3 * particleCount
  /\ mesh.geometry.attributes.position.array[3] =
       <<targetPositions[3 * particleCount - 2], targetPositions[3 * particleCount - 1],
         targetPositions[3 * particleCount]>>
  /\ "GSAP animation started" \in console

\* C16: in the first revision every step that creates a tween or registers a
\* ticker callback is the step in which the loading manager ends its last
\* item (manager.onLoad, the only caller of startAnimation), and it is taken
\* with the particle system already created by createParticles; so none is
\* created when no mesh was found.
C16_AnimationOnlyAfterCreation ==
  [][(timeline' # timeline \/ ticker' # ticker) =>
       /\ pending # {}
       /\ pending' = {}
       /\ particleSystem.kind = "Points"
       /\ "No mesh found in the GLTF model!" \notin console]_vars

\* C16 witness: manager.onLoad ran after createParticles and created one
\* tween per particle and the ticker callback.
C16_Witness ==
  /\ pending = {}
  /\ particleSystem.kind = "Points"
  /\ Len(timeline.tweens) = particleCount
  /\ ticker = {"updateParticles"}
  /\ loadingScreen.display = "none"

\* manager.onLoad has run without a particle system (no mesh was found) and
\* created nothing.
C16_NoMeshNoTween ==
  /\ pending = {}
  /\ "No mesh found in the GLTF model!" \in console
  /\ timeline = NoTimeline
  /\ ticker = {}

====
